---- MODULE Spec2Model ----
(***************************************************************************)
(* A model of the object core of notional (core.py): the adaptive-type     *)
(* registry (_register_adaptive_type, _resolve_adaptive_type), deserialize *)
(* and serialize, update, the class subscript of ComposableObjectMeta, and *)
(* Session.ping (session.py).                                              *)
(***************************************************************************)
EXTENDS Integers, Sequences, FiniteSets, TLC

\* ------------------------------------------------------------------------
\* Bounds
\* ------------------------------------------------------------------------

\* Number of _register_adaptive_type calls explored in one behaviour.
MaxReg == 2

\* Length of the longest list or tuple handed to a class subscript.
MaxParams == 3

\* Number of options a MultiSelect holds at most.
MaxOptions == 3

\* ------------------------------------------------------------------------
\* The class hierarchy the operations are exercised on, declared the way
\* types.py declares its typed objects:
\*
\*   class RichTextObject(TypedObject)                 type: str
\*   class TextObject(RichTextObject, type="text")
\*   class MentionObject(RichTextObject, type="mention")
\*   class FileObject(TypedObject)                     type: str
\* ------------------------------------------------------------------------

Classes == {"RichTextObject", "TextObject", "MentionObject", "FileObject"}

NoClass == "-"

\* Keys a mapping may carry that a family can use as discriminator.
Fields == {"object", "type"}

\* Python's None: the value of a key that is absent or null in a mapping.
NoneVal == "None"

Values == {"text", "mention"}

\* cls.__mro__ restricted to the modelled classes (single inheritance).
MRO(c) ==
    CASE c = "RichTextObject" -> <<"RichTextObject">>
      [] c = "TextObject"     -> <<"TextObject", "RichTextObject">>
      [] c = "MentionObject"  -> <<"MentionObject", "RichTextObject">>
      [] c = "FileObject"     -> <<"FileObject">>

\* cls.__subclasses__(), in definition order.
Subclasses(c) ==
    CASE c = "RichTextObject" -> <<"TextObject", "MentionObject">>
      [] OTHER                -> <<>>

\* ABC in cls.__bases__ (none of the modelled classes lists ABC as a base)
IsABC(c) == FALSE

\* The fields of the shape: `type: str` of TypedObject.  Other keys of a
\* mapping are extra input, which validation ignores.
DeclaredFields == {"type"}

Required == "required"

\* The default a class keyword (type="text") gives the field, set by
\* __pydantic_init_subclass__; "required" where no keyword was given.
FieldDefault(c, f) ==
    CASE f = "type" /\ c = "TextObject"    -> "text"
      [] f = "type" /\ c = "MentionObject" -> "mention"
      [] OTHER -> Required

\* issubclass(c, cls)
IsSubclass(c, cls) == \E i \in 1..Len(MRO(c)) : MRO(c)[i] = cls

\* ------------------------------------------------------------------------
\* Objects handed to and returned by the operations
\* ------------------------------------------------------------------------

Mappings == [Fields -> Values \cup {NoneVal}]

NoVals == [f \in Fields |-> NoneVal]

\* a dict
DictObj(data) == [kind |-> "dict", cls |-> NoClass, id |-> 0, vals |-> data]

\* an instance of class c; id tells objects of equal content apart
\* (id 0: created by the call under consideration)
InstObj(c, i, data) == [kind |-> "inst", cls |-> c, id |-> i, vals |-> data]

\* anything that is neither a dict nor an instance (a list, a string)
OtherObj == [kind |-> "other", cls |-> NoClass, id |-> 0, vals |-> NoVals]

NoObj == [kind |-> "none", cls |-> NoClass, id |-> 0, vals |-> NoVals]

\* Instances a caller may already hold: one per class, built with the
\* class default (and type="text" where the field is required).
HeldInstances ==
    { InstObj(c, 1, [f \in Fields |->
                        IF f \notin DeclaredFields THEN NoneVal
                        ELSE IF FieldDefault(c, f) = Required THEN "text"
                        ELSE FieldDefault(c, f)]) : c \in Classes }

\* ------------------------------------------------------------------------
\* pydantic: cls.model_validate(dict)
\* ------------------------------------------------------------------------

ValidationError == "ValidationError"

Validates(c, data) ==
    \A f \in DeclaredFields : FieldDefault(c, f) = Required => data[f] # NoneVal

ModelValidate(c, data) ==
    IF Validates(c, data)
    THEN [outcome |-> "ok",
          result  |-> InstObj(c, 0, [f \in Fields |->
                          IF f \notin DeclaredFields THEN NoneVal
                          ELSE IF data[f] # NoneVal THEN data[f]
                          ELSE FieldDefault(c, f)])]
    ELSE [outcome |-> ValidationError, result |-> NoObj]

\* ------------------------------------------------------------------------
\* State
\* ------------------------------------------------------------------------

VARIABLES
    typemap,   \* per class: its own __notional_typemap__ attribute
    firstReg,  \* history: first class a call registered per (dict, field, value)
    nreg,      \* number of _register_adaptive_type calls so far
    last,      \* the call under way and its outcome; NoCall between calls
    schema,    \* model_fields of the class the live instance belongs to
    inst,      \* the fields of the live instance; NoInstance before it exists
    call,      \* the call on the instance or class under way; NoOp between calls
    remote,    \* the Notion API as the session finds it
    selected   \* multi_select of the MultiSelect: its options, in list order

vars == <<typemap, firstReg, nreg, last, schema, inst, call, remote, selected>>

\* What the calls on the registry leave alone.
objvars == <<schema, inst, call, remote, selected>>

NoEntries == [f \in Fields |-> [v \in Values |-> NoClass]]

\* A class without the attribute; `names` is the key order of the dict,
\* `entries[name][value]` the class stored in the inner dict.
NoTypemap == [has |-> FALSE, names |-> <<>>, entries |-> NoEntries]

SeqContains(s, x) == \E i \in 1..Len(s) : s[i] = x

\* One typemap shared by every class (the attribute set on a common base).
Holder_Shared(tm, cls) ==
    IF \E c \in Classes : tm[c].has
    THEN CHOOSE c \in Classes : tm[c].has
    ELSE NoClass

\* The class whose attribute cls.__notional_typemap__ evaluates to: the
\* first class along the MRO that has it; NoClass when none has.
Holder(tm, cls) ==
    LET mro == MRO(cls)
        idx == { i \in 1..Len(mro) : tm[mro[i]].has }
    IN IF idx = {} THEN NoClass
       ELSE mro[CHOOSE i \in idx : \A j \in idx : i <= j]

\* hasattr(cls, "__notional_typemap__")
HasTypemap(tm, cls) == Holder(tm, cls) # NoClass

\* ------------------------------------------------------------------------
\* AdaptiveObject._register_adaptive_type(cls, name, value)
\* ------------------------------------------------------------------------

DuplicateSubtype == "ValueError: Duplicate subtype"

\* _register_adaptive_type without the duplicate check: a later
\* registration replaces the class stored for the value.
RegisterAdaptiveType_Overwrite(tm, cls, name, value) ==
    LET tm1    == IF HasTypemap(tm, cls) THEN tm
                  ELSE [tm EXCEPT ![cls] = [has |-> TRUE, names |-> <<>>,
                                            entries |-> NoEntries]]
        holder == Holder(tm1, cls)
        known  == SeqContains(tm1[holder].names, name)
        inner  == IF known THEN tm1[holder].entries[name]
                  ELSE [v \in Values |-> NoClass]
        inner2 == IF value # NoneVal THEN [inner EXCEPT ![value] = cls]
                  ELSE inner
        names2 == IF known THEN tm1[holder].names
                  ELSE Append(tm1[holder].names, name)
    IN [outcome |-> "ok",
        tm |-> [tm1 EXCEPT ![holder] =
                   [has |-> TRUE, names |-> names2,
                    entries |-> [tm1[holder].entries
                                   EXCEPT ![name] = inner2]]]]

\* _register_adaptive_type working on a copy of an existing inner dict:
\* only the registration that introduces a field is kept.
RegisterAdaptiveType_FirstOnly(tm, cls, name, value) ==
    LET tm1    == IF HasTypemap(tm, cls) THEN tm
                  ELSE [tm EXCEPT ![cls] = [has |-> TRUE, names |-> <<>>,
                                            entries |-> NoEntries]]
        holder == Holder(tm1, cls)
        known  == SeqContains(tm1[holder].names, name)
        inner  == IF known THEN tm1[holder].entries[name]
                  ELSE [v \in Values |-> NoClass]
    IN  IF value # NoneVal /\ inner[value] # NoClass
        THEN [outcome |-> DuplicateSubtype, tm |-> tm1]
        ELSE IF known THEN [outcome |-> "ok", tm |-> tm1]
        ELSE [outcome |-> "ok",
              tm |-> [tm1 EXCEPT ![holder] =
                         [has |-> TRUE,
                          names |-> Append(tm1[holder].names, name),
                          entries |-> [tm1[holder].entries EXCEPT ![name] =
                                          IF value # NoneVal
                                          THEN [inner EXCEPT ![value] = cls]
                                          ELSE inner]]]]

RegisterAdaptiveType(tm, cls, name, value) ==
    LET \* if not hasattr(...): cls.__notional_typemap__ = {}
        tm1    == IF HasTypemap(tm, cls) THEN tm
                  ELSE [tm EXCEPT ![cls] = [has |-> TRUE, names |-> <<>>,
                                            entries |-> NoEntries]]
        holder == Holder(tm1, cls)
        known  == SeqContains(tm1[holder].names, name)
        \* typemap = cls.__notional_typemap__.get(name) or {}
        inner  == IF known THEN tm1[holder].entries[name]
                  ELSE [v \in Values |-> NoClass]
    IN  IF value # NoneVal /\ inner[value] # NoClass
        THEN [outcome |-> DuplicateSubtype, tm |-> tm1]
        ELSE LET inner2 == IF value # NoneVal
                           THEN [inner EXCEPT ![value] = cls]
                           ELSE inner
                 names2 == IF known THEN tm1[holder].names
                           ELSE Append(tm1[holder].names, name)
             IN [outcome |-> "ok",
                 tm |-> [tm1 EXCEPT ![holder] =
                            [has |-> TRUE, names |-> names2,
                             entries |-> [tm1[holder].entries
                                            EXCEPT ![name] = inner2]]]]

\* ------------------------------------------------------------------------
\* AdaptiveObject._resolve_adaptive_type(cls, obj)
\* ------------------------------------------------------------------------

InvalidObject      == "ValueError: Invalid object"
MissingTypemap     == "TypeError: Missing typemap"
UnsupportedSubtype == "TypeError: Unsupported sub-type"

\* The loop with an unknown value skipped like a missing one.
RECURSIVE ResolveLoop_SkipUnknown(_, _, _, _)
ResolveLoop_SkipUnknown(dict, cls, data, i) ==
    IF i > Len(dict.names)
    THEN LET r == ModelValidate(cls, data)
         IN [outcome |-> r.outcome, result |-> r.result,
             via |-> "base", sub |-> cls, field |-> NoneVal]
    ELSE LET name  == dict.names[i]
             value == data[name]
         IN IF value = NoneVal \/ dict.entries[name][value] = NoClass
            THEN ResolveLoop_SkipUnknown(dict, cls, data, i + 1)
            ELSE LET sub == dict.entries[name][value]
                     r   == ModelValidate(sub, data)
                 IN [outcome |-> r.outcome, result |-> r.result,
                     via |-> "typemap", sub |-> sub, field |-> name]

\* The loop over cls.__notional_typemap__.items(), from the i-th key on.
RECURSIVE ResolveLoop(_, _, _, _)
ResolveLoop(dict, cls, data, i) ==
    IF i > Len(dict.names)
    THEN \* return super().model_validate(obj)
         LET r == ModelValidate(cls, data)
         IN [outcome |-> r.outcome, result |-> r.result,
             via |-> "base", sub |-> cls, field |-> NoneVal]
    ELSE LET name  == dict.names[i]
             value == data[name]
         IN IF value = NoneVal
            THEN ResolveLoop(dict, cls, data, i + 1)
            ELSE LET sub == dict.entries[name][value]
                 IN IF sub = NoClass
                    THEN [outcome |-> UnsupportedSubtype, result |-> NoObj,
                          via |-> "raise", sub |-> NoClass, field |-> name]
                    ELSE LET r == ModelValidate(sub, data)
                         IN [outcome |-> r.outcome, result |-> r.result,
                             via |-> "typemap", sub |-> sub, field |-> name]

\* _resolve_adaptive_type with the typemap check ahead of the instance check.
ResolveAdaptiveType_TypemapFirst(tm, cls, obj) ==
    IF ~HasTypemap(tm, cls)
    THEN [outcome |-> MissingTypemap, result |-> NoObj,
          via |-> "raise", sub |-> NoClass, field |-> NoneVal]
    ELSE IF obj.kind = "inst" /\ IsSubclass(obj.cls, cls)
    THEN [outcome |-> "ok", result |-> obj,
          via |-> "passthrough", sub |-> NoClass, field |-> NoneVal]
    ELSE IF obj.kind # "dict"
    THEN [outcome |-> InvalidObject, result |-> NoObj,
          via |-> "raise", sub |-> NoClass, field |-> NoneVal]
    ELSE ResolveLoop(tm[Holder(tm, cls)], cls, obj.vals, 1)

ResolveAdaptiveType(tm, cls, obj) ==
    IF obj.kind = "inst" /\ IsSubclass(obj.cls, cls)
    THEN [outcome |-> "ok", result |-> obj,
          via |-> "passthrough", sub |-> NoClass, field |-> NoneVal]
    ELSE IF obj.kind # "dict"
    THEN [outcome |-> InvalidObject, result |-> NoObj,
          via |-> "raise", sub |-> NoClass, field |-> NoneVal]
    ELSE IF ~HasTypemap(tm, cls)
    THEN [outcome |-> MissingTypemap, result |-> NoObj,
          via |-> "raise", sub |-> NoClass, field |-> NoneVal]
    ELSE ResolveLoop(tm[Holder(tm, cls)], cls, obj.vals, 1)

\* ------------------------------------------------------------------------
\* NotionObject.deserialize(cls, data) and _find_all_possible_types
\* ------------------------------------------------------------------------

NoAvailableTypes == "RuntimeError: no available types"

RECURSIVE FindAllPossibleTypes(_)
RECURSIVE FindInSubclasses(_, _)

FindInSubclasses(subs, i) ==
    IF i > Len(subs) THEN <<>>
    ELSE FindAllPossibleTypes(subs[i]) \o FindInSubclasses(subs, i + 1)

FindAllPossibleTypes(cls) ==
    (IF ~IsABC(cls) THEN <<cls>> ELSE <<>>)
        \o FindInSubclasses(Subclasses(cls), 1)

\* TypeAdapter(Union[*types]).validate_python(dict): no member accepts a
\* dict in the strict pass; the members accept the same fields, so the
\* leftmost member whose shape validates is the result.
RECURSIVE UnionValidate(_, _, _)
UnionValidate(types, data, i) ==
    IF i > Len(types) THEN [outcome |-> ValidationError, result |-> NoObj]
    ELSE IF Validates(types[i], data) THEN ModelValidate(types[i], data)
    ELSE UnionValidate(types, data, i + 1)

Deserialize(cls, data) ==
    LET types == FindAllPossibleTypes(cls)
    IN IF Len(types) = 0
       THEN [outcome |-> NoAvailableTypes, result |-> NoObj]
       ELSE UnionValidate(types, data, 1)

\* ------------------------------------------------------------------------
\* The shape of a live instance: the fields of RichTextObject (types.py),
\* in model_fields order
\*
\*     type: str            (TypedObject)
\*     plain_text: str
\*     href: str = None
\*
\* and of a subclass of it declared with class keywords.
\* ------------------------------------------------------------------------

ShapeFields == <<"type", "plain_text", "href">>

ShapeNames == {ShapeFields[i] : i \in 1..Len(ShapeFields)}

\* The str values a field may hold; "" is the falsy one.
Strings == Values \cup {""}

\* model_fields of RichTextObject: per field its default and frozen flag.
BaseSchema ==
    [f \in ShapeNames |->
        [default |-> IF f = "href" THEN NoneVal ELSE Required,
         frozen  |-> FALSE]]

\* No instance has been constructed.
NoInstance == <<>>

FieldNotFound == "ValueError: field not found"

\* AdaptiveObject._update_field_schema(name, default=default, frozen=True)
UpdateFieldSchema(sch, name, default) ==
    IF name \notin DOMAIN sch
    THEN [outcome |-> FieldNotFound, schema |-> sch]
    ELSE [outcome |-> "ok",
          schema  |-> [sch EXCEPT ![name] =
                          [default |-> default, frozen |-> TRUE]]]

\* AdaptiveObject.__pydantic_init_subclass__(**kwargs): every keyword of
\* the class statement goes through _update_field_schema; model_rebuild
\* makes the new defaults those of validation and of model_dump.
InitSubclass(sch, kwargs) ==
    IF \E n \in DOMAIN kwargs : n \notin DOMAIN sch
    THEN [outcome |-> FieldNotFound, schema |-> sch]
    ELSE [outcome |-> "ok",
          schema  |-> [f \in DOMAIN sch |->
                          IF f \in DOMAIN kwargs
                          THEN UpdateFieldSchema(sch, f, kwargs[f]).schema[f]
                          ELSE sch[f]]]

\* pydantic validation of a dict against the shape: a key that is present
\* must hold a str (None is rejected), a key that is absent needs a default.
ShapeValidates(sch, data) ==
    \A f \in ShapeNames :
        IF f \in DOMAIN data THEN data[f] \in Strings
        ELSE sch[f].default # Required

\* self.model_validate(data) / cls(**data)
ShapeValidate(sch, data) ==
    IF ShapeValidates(sch, data)
    THEN [outcome |-> "ok",
          vals    |-> [f \in ShapeNames |->
                          IF f \in DOMAIN data THEN data[f]
                          ELSE sch[f].default]]
    ELSE [outcome |-> ValidationError, vals |-> NoInstance]

\* A variant of the dump that keeps every field.
ModelDumpExcludeDefaults_KeepAll(sch, vals) == vals

\* partial_model.model_dump(exclude_defaults=True): the fields whose value
\* differs from the default of the field.
ModelDumpExcludeDefaults(sch, vals) ==
    [f \in {g \in ShapeNames : vals[g] # sch[g].default} |-> vals[f]]

FrozenField == "ValidationError: frozen_field"

\* setattr(self, name, value): pydantic refuses a frozen field and stores
\* anything else without validating it.
SetAttr(sch, vals, name, value) ==
    IF sch[name].frozen
    THEN [outcome |-> FrozenField, vals |-> vals]
    ELSE [outcome |-> "ok", vals |-> [vals EXCEPT ![name] = value]]

\* for name, value in partial_data.items(): setattr(self, name, value)
\* (a dump lists the fields in model_fields order)
RECURSIVE WriteBack(_, _, _, _)
WriteBack(sch, vals, partial, i) ==
    IF i > Len(ShapeFields) THEN [outcome |-> "ok", vals |-> vals]
    ELSE IF ShapeFields[i] \notin DOMAIN partial
         THEN WriteBack(sch, vals, partial, i + 1)
         ELSE LET r == SetAttr(sch, vals, ShapeFields[i],
                               partial[ShapeFields[i]])
              IN IF r.outcome # "ok" THEN r
                 ELSE WriteBack(sch, r.vals, partial, i + 1)

\* NotionObject.update(self, **data): `vals` is the instance after the
\* call, `result` what the call returned.
Update(sch, vals, data) ==
    LET pm == ShapeValidate(sch, data)
    IN IF pm.outcome # "ok"
       THEN [outcome |-> pm.outcome, vals |-> vals, result |-> "none"]
       ELSE LET w == WriteBack(sch, vals,
                               ModelDumpExcludeDefaults(sch, pm.vals), 1)
            IN [outcome |-> w.outcome, vals |-> w.vals,
                result  |-> IF w.outcome = "ok" THEN "self" ELSE "none"]

\* ------------------------------------------------------------------------
\* NotionObject.serialize(self, mode) and SerializationMode
\* ------------------------------------------------------------------------

\* SerializationMode.JSON, .PYTHON; API is another name of PYTHON
JSON == "json"

PYTHON == "python"

API == PYTHON

\* Values handed in as mode: the members of the enumeration and two values
\* that are none of them.
Modes == {JSON, PYTHON, API, "yaml", NoneVal}

UnsupportedMode == "NotImplementedError: unsupported serialization mode"

\* A variant of the dump that keeps the fields holding None.
ModelDump_KeepNone(order, vals) ==
    [f \in {order[i] : i \in 1..Len(order)} |-> vals[f]]

\* self.model_dump(mode="json", exclude_none=True, by_alias=True): a dict
\* of the fields that hold something other than None (the fields of the
\* shapes are str and carry no alias, so key and value are kept as held).
ModelDump(order, vals) ==
    [f \in {order[i] : i \in {j \in 1..Len(order) : vals[order[j]] # NoneVal}}
        |-> vals[f]]

\* self.model_dump_json(indent=None, exclude_none=True, by_alias=True):
\* the text of the same dump, the members in model_fields order.
ModelDumpJson(order, vals) ==
    LET dump == ModelDump(order, vals)
        Kept(pair) == pair[1] \in DOMAIN dump
    IN SelectSeq([i \in 1..Len(order) |-> <<order[i], vals[order[i]]>>], Kept)

NoOutput == [kind |-> "none", data |-> <<>>]

\* A variant that treats every mode other than JSON as the native one.
Serialize_DefaultNative(order, vals, mode) ==
    IF mode = JSON
    THEN [outcome |-> "ok",
          output  |-> [kind |-> "str", data |-> ModelDumpJson(order, vals)]]
    ELSE [outcome |-> "ok",
          output  |-> [kind |-> "dict", data |-> ModelDump(order, vals)]]

Serialize(order, vals, mode) ==
    IF mode = PYTHON
    THEN [outcome |-> "ok",
          output  |-> [kind |-> "dict", data |-> ModelDump(order, vals)]]
    ELSE IF mode = JSON
    THEN [outcome |-> "ok",
          output  |-> [kind |-> "str", data |-> ModelDumpJson(order, vals)]]
    ELSE [outcome |-> UnsupportedMode, output |-> NoOutput]

\* data.get(name) for every key a resolution or validation may read
AsMapping(dict) ==
    [f \in Fields |-> IF f \in DOMAIN dict THEN dict[f] ELSE NoneVal]

\* model_fields order of the typed objects of the hierarchy
TypedFields == <<"type">>

\* cls.deserialize(obj.serialize(SerializationMode.PYTHON))
RoundTrip(cls, obj) ==
    LET s == Serialize(TypedFields, obj.vals, PYTHON)
    IN IF s.outcome # "ok" THEN [outcome |-> s.outcome, result |-> NoObj]
       ELSE Deserialize(cls, AsMapping(s.output.data))

\* ------------------------------------------------------------------------
\* ComposableObjectMeta.__getitem__(cls, params)
\* ------------------------------------------------------------------------

\* Classes a subscript is applied to: one that defines __compose__, one
\* that inherits it, one without it.
ComposeClasses == {"Paragraph", "Quote", "Divider"}

ComposeMRO(c) ==
    CASE c = "Quote" -> <<"Quote", "Paragraph">>
      [] OTHER       -> <<c>>

DefinesCompose(c) == c = "Paragraph"

\* getattr(cls, "__compose__", None) is not None
HasCompose(c) ==
    \E i \in 1..Len(ComposeMRO(c)) : DefinesCompose(ComposeMRO(c)[i])

\* Simple values: strings (one of them empty) and None.
Atom(v) == [kind |-> "atom", val |-> v, items |-> <<>>]

Atoms == {Atom(v) : v \in Strings \cup {NoneVal}}

\* A list or tuple of simple values.
Collection(k, items) == [kind |-> k, val |-> NoneVal, items |-> items]

Collections ==
    {Collection(k, items) :
        k \in {"list", "tuple"},
        items \in UNION {[1..n -> Atoms] : n \in 0..MaxParams}}

\* What stands between the brackets: Cls[a] hands a itself over, Cls[a, b]
\* the tuple (a, b).
Params == Atoms \cup Collections

CompositionUnsupported == "NotImplementedError: no object composition"

\* bool(params): None, the empty string and the empty list or tuple are
\* false.
Truthy(params) ==
    IF params.kind = "atom" THEN params.val \notin {NoneVal, ""}
    ELSE Len(params.items) > 0

\* A variant that lets the class constructor take the parameters of a
\* class without __compose__.
GetItem_Construct(cls, params) ==
    IF Truthy(params) /\ params.kind \in {"list", "tuple"}
    THEN [outcome |-> "ok", composed |-> <<params.items>>]
    ELSE [outcome |-> "ok", composed |-> <<(<<params>>)>>]

\* `composed` lists the argument tuples of the __compose__ calls made.
GetItem(cls, params) ==
    IF ~HasCompose(cls)
    THEN [outcome |-> CompositionUnsupported, composed |-> <<>>]
    ELSE IF Truthy(params) /\ params.kind \in {"list", "tuple"}
    THEN [outcome |-> "ok", composed |-> <<params.items>>]
    ELSE [outcome |-> "ok", composed |-> <<(<<params>>)>>]

\* ------------------------------------------------------------------------
\* Session.ping(self) and UsersEndpoint.me(self)  (session.py)
\* ------------------------------------------------------------------------

\* The API as a request finds it: the connection, whether the API accepts
\* the token, and the body it answers `users/me` with.
Remotes ==
    [net : {"up", "down", "timeout"}, authorized : BOOLEAN, data : Mappings]

\* The API is up, accepts the token and describes the bot user.
Reachable ==
    [net |-> "up", authorized |-> TRUE,
     data |-> [f \in Fields |-> IF f = "object" THEN "text" ELSE "mention"]]

ConnectError == "httpx.ConnectError"

APIResponseError == "notion_client.errors.APIResponseError"

RequestTimeoutError == "notion_client.errors.RequestTimeoutError"

SessionError == "SessionError"

\* User.parse_obj(data): User is a DataObject and a TypedObject, `object`
\* and `type` are str fields a body has to carry.
UserValidates(data) == \A f \in Fields : data[f] # NoneVal

\* UsersEndpoint.me: the request either raises or returns the body, which
\* is parsed into a User.
Me(r) ==
    IF r.net = "down" THEN [raised |-> ConnectError, user |-> NoneVal]
    ELSE IF r.net = "timeout"
    THEN [raised |-> RequestTimeoutError, user |-> NoneVal]
    ELSE IF ~r.authorized THEN [raised |-> APIResponseError, user |-> NoneVal]
    ELSE IF ~UserValidates(r.data)
    THEN [raised |-> ValidationError, user |-> NoneVal]
    ELSE [raised |-> "none", user |-> "User"]

\* Session.ping: the except clauses name ConnectError and APIResponseError;
\* any other exception leaves the try statement as it is.
Ping(r) ==
    LET me == Me(r)
    IN IF me.raised = ConnectError
       THEN [outcome |-> SessionError, result |-> "none"]
       ELSE IF me.raised = APIResponseError
       THEN [outcome |-> SessionError, result |-> "none"]
       ELSE IF me.raised # "none"
       THEN [outcome |-> me.raised, result |-> "none"]
       ELSE IF me.user = NoneVal
       THEN [outcome |-> SessionError, result |-> "none"]
       ELSE [outcome |-> "ok", result |-> "True"]

\* ------------------------------------------------------------------------
\* MultiSelect.__iadd__, __isub__ and __contains__  (types.py)
\* ------------------------------------------------------------------------

\* SelectValue(name=name, id=id); the id is None where none was given.
SelectValue(name, id) == [name |-> name, id |-> id]

SelectValues == {SelectValue(n, i) : n \in Strings, i \in {NoneVal, "id"}}

\* The lists a MultiSelect is built from: names may repeat.
OptionLists == UNION {[1..n -> SelectValues] : n \in 0..MaxOptions}

\* name in self: only the names are compared.
Contains(opts, name) == \E i \in 1..Len(opts) : opts[i].name = name

AlreadySelected == "ValueError: Item already selected"

\* A variant that appends without looking for the name.
IAdd_NoLookup(opts, other) ==
    [outcome |-> "ok", opts |-> Append(opts, SelectValue(other, NoneVal))]

\* self += other
IAdd(opts, other) ==
    IF Contains(opts, other)
    THEN [outcome |-> AlreadySelected, opts |-> opts]
    ELSE [outcome |-> "ok",
          opts    |-> Append(opts, SelectValue(other, NoneVal))]

\* self -= other
ISub(opts, other) ==
    LET Kept(opt) == opt.name # other
    IN [outcome |-> "ok", opts |-> SelectSeq(opts, Kept)]

\* ------------------------------------------------------------------------
\* Actions
\* ------------------------------------------------------------------------

NoCall == [op |-> "none", cls |-> NoClass, name |-> NoneVal, value |-> NoneVal,
           obj |-> NoObj, outcome |-> "none", result |-> NoObj,
           via |-> "none", sub |-> NoClass, field |-> NoneVal]

\* No call on an instance or class is under way.
NoOp == [op |-> "none", arg |-> <<>>, name |-> NoneVal, value |-> NoneVal,
         before |-> NoInstance, outcome |-> "none", result |-> "none",
         output |-> NoOutput, composed |-> <<>>]

Init ==
    /\ typemap = [c \in Classes |-> NoTypemap]
    /\ firstReg = [c \in Classes |-> NoEntries]
    /\ nreg = 0
    /\ last = NoCall
    /\ schema = BaseSchema
    /\ inst = NoInstance
    /\ call = NoOp
    /\ remote = Reachable
    /\ selected = <<>>

\* The dict a registration call of cls works on: the inherited one, or the
\* one the call creates on cls.
TargetOf(tm, cls) == IF HasTypemap(tm, cls) THEN Holder(tm, cls) ELSE cls

\* No call is under way: the caller is free to make the next one.
Idle == last.op = "none"

Register(cls, name, value) ==
    /\ Idle
    /\ nreg < MaxReg
    /\ LET r == RegisterAdaptiveType(typemap, cls, name, value)
           t == TargetOf(typemap, cls)
       IN /\ typemap' = r.tm
          /\ firstReg' = IF value # NoneVal /\ firstReg[t][name][value] = NoClass
                         THEN [firstReg EXCEPT ![t][name][value] = cls]
                         ELSE firstReg
          /\ last' = [NoCall EXCEPT !.op = "register", !.cls = cls,
                         !.name = name, !.value = value, !.outcome = r.outcome]
    /\ nreg' = nreg + 1
    /\ UNCHANGED objvars

Resolve(cls, obj) ==
    /\ Idle
    /\ LET r == ResolveAdaptiveType(typemap, cls, obj)
       IN last' = [NoCall EXCEPT !.op = "resolve", !.cls = cls, !.obj = obj,
                      !.outcome = r.outcome, !.result = r.result,
                      !.via = r.via, !.sub = r.sub, !.field = r.field]
    /\ UNCHANGED <<typemap, firstReg, nreg>>
    /\ UNCHANGED objvars

\* Resolve the object the previous resolution returned.
ResolveAgain(cls) ==
    /\ last.op \in {"resolve", "resolve_again"}
    /\ last.outcome = "ok"
    /\ LET r == ResolveAdaptiveType(typemap, cls, last.result)
       IN last' = [NoCall EXCEPT !.op = "resolve_again", !.cls = cls,
                      !.obj = last.result,
                      !.outcome = r.outcome, !.result = r.result,
                      !.via = r.via, !.sub = r.sub, !.field = r.field]
    /\ UNCHANGED <<typemap, firstReg, nreg>>
    /\ UNCHANGED objvars

DoDeserialize(cls, data) ==
    /\ Idle
    /\ LET r == Deserialize(cls, data)
       IN last' = [NoCall EXCEPT !.op = "deserialize", !.cls = cls,
                      !.obj = DictObj(data),
                      !.outcome = r.outcome, !.result = r.result]
    /\ UNCHANGED <<typemap, firstReg, nreg>>
    /\ UNCHANGED objvars

\* The call has returned or raised; the caller goes on.
Return ==
    /\ ~Idle
    /\ last' = NoCall
    /\ UNCHANGED <<typemap, firstReg, nreg>>
    /\ UNCHANGED objvars

DoRegister == \E c \in Classes, n \in Fields, v \in Values \cup {NoneVal} :
                  Register(c, n, v)

DoResolveDict == \E c \in Classes, d \in Mappings : Resolve(c, DictObj(d))

DoResolveObject == \E c \in Classes, o \in HeldInstances \cup {OtherObj} :
                       Resolve(c, o)

DoResolveAgain == \E c \in Classes : ResolveAgain(c)

DoDeserializeDict == \E c \in Classes, d \in Mappings : DoDeserialize(c, d)

\* Registrations interleaved with resolutions of mappings.
NextRegistry ==
    \/ DoRegister
    \/ DoResolveDict
    \/ Return

SpecRegistry == Init /\ [][NextRegistry]_vars

\* Registrations interleaved with resolutions of objects that are not
\* mappings, and of what a resolution returned.
NextObject ==
    \/ DoRegister
    \/ DoResolveObject
    \/ DoResolveAgain
    \/ Return

SpecObject == Init /\ [][NextObject]_vars

\* Registrations interleaved with deserializations of mappings.
NextDeserialize ==
    \/ DoRegister
    \/ DoDeserializeDict
    \/ Return

SpecDeserialize == Init /\ [][NextDeserialize]_vars

\* The instances the classes of the hierarchy validate from a mapping.
Instances ==
    { ModelValidate(c, d).result :
          c \in Classes, d \in {m \in Mappings : m["object"] = NoneVal} }
        \ {NoObj}

DoRoundTrip(cls, obj) ==
    /\ Idle
    /\ LET r == RoundTrip(cls, obj)
       IN last' = [NoCall EXCEPT !.op = "roundtrip", !.cls = cls,
                      !.obj = obj,
                      !.outcome = r.outcome, !.result = r.result]
    /\ UNCHANGED <<typemap, firstReg, nreg>>
    /\ UNCHANGED objvars

DoRoundTripInstance == \E c \in Classes, o \in Instances : DoRoundTrip(c, o)

\* Registrations interleaved with serialize-deserialize round trips.
NextRoundTrip ==
    \/ DoRegister
    \/ DoRoundTripInstance
    \/ Return

SpecRoundTrip == Init /\ [][NextRoundTrip]_vars

\* ------------------------------------------------------------------------
\* Calls on a live instance: construction, attribute assignment, update
\* ------------------------------------------------------------------------

\* What the calls on an instance or class leave alone.
regvars == <<typemap, firstReg, nreg, last, remote, selected>>

\* dicts over the fields of the shape; a value may be None
Patches == UNION {[D -> Strings \cup {NoneVal}] : D \in SUBSET ShapeNames}

\* keywords of a class statement; "object" is not a field of the shape
Keywords == UNION {[D -> Values] : D \in SUBSET (ShapeNames \cup {"object"})}

\* No call on an instance or class is under way.
Ready == call.op = "none"

\* class Variant(RichTextObject, **kwargs): the class of the instance.
DeclareSubclass(kwargs) ==
    /\ Ready
    /\ inst = NoInstance
    /\ schema = BaseSchema
    /\ LET r == InitSubclass(schema, kwargs)
       IN /\ schema' = r.schema
          /\ call' = [NoOp EXCEPT !.op = "init_subclass", !.arg = kwargs,
                         !.outcome = r.outcome]
    /\ UNCHANGED inst
    /\ UNCHANGED regvars

\* inst = cls(**data)
Construct(data) ==
    /\ Ready
    /\ inst = NoInstance
    /\ LET r == ShapeValidate(schema, data)
       IN /\ inst' = r.vals
          /\ call' = [NoOp EXCEPT !.op = "construct", !.arg = data,
                         !.outcome = r.outcome]
    /\ UNCHANGED schema
    /\ UNCHANGED regvars

\* inst.name = value
Assign(name, value) ==
    /\ Ready
    /\ inst # NoInstance
    /\ LET r == SetAttr(schema, inst, name, value)
       IN /\ inst' = r.vals
          /\ call' = [NoOp EXCEPT !.op = "setattr", !.name = name,
                         !.value = value, !.before = inst,
                         !.outcome = r.outcome]
    /\ UNCHANGED schema
    /\ UNCHANGED regvars

\* inst.update(**data)
CallUpdate(data) ==
    /\ Ready
    /\ inst # NoInstance
    /\ LET r == Update(schema, inst, data)
       IN /\ inst' = r.vals
          /\ call' = [NoOp EXCEPT !.op = "update", !.arg = data,
                         !.before = inst, !.outcome = r.outcome,
                         !.result = r.result]
    /\ UNCHANGED schema
    /\ UNCHANGED regvars

\* The call has returned or raised; the caller goes on.
Done ==
    /\ ~Ready
    /\ call' = NoOp
    /\ UNCHANGED <<schema, inst>>
    /\ UNCHANGED regvars

DoDeclareSubclass == \E kw \in Keywords : DeclareSubclass(kw)

DoConstruct == \E d \in Patches : Construct(d)

DoAssign == \E n \in ShapeNames, v \in Strings \cup {NoneVal} : Assign(n, v)

DoUpdate == \E d \in Patches : CallUpdate(d)

NextUpdate ==
    \/ DoDeclareSubclass
    \/ DoConstruct
    \/ DoAssign
    \/ DoUpdate
    \/ Done

SpecUpdate == Init /\ [][NextUpdate]_vars

\* inst.serialize(*arg): arg is <<mode>>, or <<>> where the caller leaves
\* the mode to the default of the parameter, SerializationMode.API.
CallSerialize(arg) ==
    /\ Ready
    /\ inst # NoInstance
    /\ LET mode == IF arg = <<>> THEN API ELSE arg[1]
           r == Serialize(ShapeFields, inst, mode)
       IN call' = [NoOp EXCEPT !.op = "serialize", !.arg = arg,
                      !.value = mode, !.before = inst,
                      !.outcome = r.outcome, !.output = r.output]
    /\ UNCHANGED <<schema, inst>>
    /\ UNCHANGED regvars

DoSerialize == \E arg \in {<<>>} \cup {<<m>> : m \in Modes} : CallSerialize(arg)

NextSerialize ==
    \/ DoConstruct
    \/ DoAssign
    \/ DoSerialize
    \/ Done

SpecSerialize == Init /\ [][NextSerialize]_vars

\* cls[params]
Subscript(cls, params) ==
    /\ Ready
    /\ LET r == GetItem(cls, params)
       IN call' = [NoOp EXCEPT !.op = "getitem", !.name = cls,
                      !.arg = params, !.outcome = r.outcome,
                      !.composed = r.composed]
    /\ UNCHANGED <<schema, inst>>
    /\ UNCHANGED regvars

DoSubscript == \E c \in ComposeClasses, p \in Params : Subscript(c, p)

NextCompose ==
    \/ DoSubscript
    \/ Done

SpecCompose == Init /\ [][NextCompose]_vars

\* ------------------------------------------------------------------------
\* Calls on a session
\* ------------------------------------------------------------------------

\* The network or the API changes between two calls.
RemoteChanges(r) ==
    /\ Ready
    /\ remote # r
    /\ remote' = r
    /\ UNCHANGED <<typemap, firstReg, nreg, last, schema, inst, call>>
    /\ UNCHANGED selected

\* session.ping()
CallPing ==
    /\ Ready
    /\ LET r == Ping(remote)
       IN call' = [NoOp EXCEPT !.op = "ping", !.outcome = r.outcome,
                      !.result = r.result]
    /\ UNCHANGED <<schema, inst>>
    /\ UNCHANGED regvars

DoRemoteChanges == \E r \in Remotes : RemoteChanges(r)

NextPing ==
    \/ DoRemoteChanges
    \/ CallPing
    \/ Done

SpecPing == Init /\ [][NextPing]_vars

\* ------------------------------------------------------------------------
\* Calls on a MultiSelect
\* ------------------------------------------------------------------------

\* What the calls on a MultiSelect leave alone.
fixed == <<typemap, firstReg, nreg, last, schema, inst, remote>>

\* ms = MultiSelect(multi_select=opts)
NewMultiSelect(opts) ==
    /\ Ready
    /\ selected # opts
    /\ selected' = opts
    /\ UNCHANGED call
    /\ UNCHANGED fixed

\* ms += name
CallIAdd(name) ==
    /\ Ready
    /\ Len(selected) < MaxOptions \/ Contains(selected, name)
    /\ LET r == IAdd(selected, name)
       IN /\ selected' = r.opts
          /\ call' = [NoOp EXCEPT !.op = "iadd", !.name = name,
                         !.before = selected, !.outcome = r.outcome]
    /\ UNCHANGED fixed

\* ms -= name
CallISub(name) ==
    /\ Ready
    /\ LET r == ISub(selected, name)
       IN /\ selected' = r.opts
          /\ call' = [NoOp EXCEPT !.op = "isub", !.name = name,
                         !.before = selected, !.outcome = r.outcome]
    /\ UNCHANGED fixed

DoNewMultiSelect == \E opts \in OptionLists : NewMultiSelect(opts)

DoIAdd == \E n \in Strings : CallIAdd(n)

DoISub == \E n \in Strings : CallISub(n)

NextMultiSelect ==
    \/ DoNewMultiSelect
    \/ DoIAdd
    \/ DoISub
    \/ Done

SpecMultiSelect == Init /\ [][NextMultiSelect]_vars

\* ------------------------------------------------------------------------
\* Every call of the model
\* ------------------------------------------------------------------------

Next ==
    \/ DoRegister
    \/ DoResolveDict
    \/ DoResolveObject
    \/ DoResolveAgain
    \/ DoDeserializeDict
    \/ DoRoundTripInstance
    \/ Return
    \/ DoDeclareSubclass
    \/ DoConstruct
    \/ DoAssign
    \/ DoUpdate
    \/ DoSerialize
    \/ DoSubscript
    \/ DoRemoteChanges
    \/ CallPing
    \/ DoNewMultiSelect
    \/ DoIAdd
    \/ DoISub
    \/ Done

Spec == Init /\ [][Next]_vars

\* ------------------------------------------------------------------------
\* Vocabulary of the properties
\* ------------------------------------------------------------------------

\* The dict a resolution on cls reads.
DictOf(cls) == typemap[Holder(typemap, cls)]

\* The discriminator fields of a dict that carry a value in a mapping.
Carried(dict, data) ==
    { i \in 1..Len(dict.names) : data[dict.names[i]] # NoneVal }

\* The first discriminator field, in registration order, that carries a
\* value in the mapping: the discriminator of the mapping.
Discriminator(dict, data) ==
    dict.names[CHOOSE i \in Carried(dict, data) :
                   \A j \in Carried(dict, data) : i <= j]

\* The discriminator fields whose value in the mapping is registered.
Matching(dict, data) ==
    { i \in Carried(dict, data) :
          dict.entries[dict.names[i]][data[dict.names[i]]] # NoClass }

\* Some variant is registered in the dict.
HasVariants(dict) ==
    \E i \in 1..Len(dict.names), v \in Values :
        dict.entries[dict.names[i]][v] # NoClass

\* The last call resolved a mapping against a class that has a typemap.
ResolvedMapping ==
    /\ last.op = "resolve"
    /\ last.obj.kind = "dict"
    /\ HasTypemap(typemap, last.cls)

\* The step is a call of _register_adaptive_type (its arguments are last').
IsRegisterStep == last'.op = "register" /\ nreg' = nreg + 1

\* ------------------------------------------------------------------------
\* C1  Discriminator exclusivity
\* ------------------------------------------------------------------------

UnknownDiscriminator ==
    /\ ResolvedMapping
    /\ Carried(DictOf(last.cls), last.obj.vals) # {}
    /\ LET f == Discriminator(DictOf(last.cls), last.obj.vals)
       IN DictOf(last.cls).entries[f][last.obj.vals[f]] = NoClass

\* C2: resolving a mapping whose discriminator carries a non-null value
\* that has no entry in the typemap for that field raises the
\* unsupported-sub-type error and returns no instance.
C2_UnknownDiscriminator ==
    UnknownDiscriminator
        => /\ last.outcome = UnsupportedSubtype
           /\ last.result.kind # "inst"

\* An unknown value was refused by a family that has registered variants.
C2_Witness ==
    /\ UnknownDiscriminator
    /\ HasVariants(DictOf(last.cls))
    /\ last.outcome = UnsupportedSubtype

\* ------------------------------------------------------------------------
\* C3  Explicit failure when nothing matches
\* ------------------------------------------------------------------------

\* C3: when the family has registered variants and no discriminator field
\* of the mapping yields a match, the resolution fails with the
\* unsupported-sub-type error.
C3_ExplicitFailure ==
    ( /\ ResolvedMapping
      /\ HasVariants(DictOf(last.cls))
      /\ Matching(DictOf(last.cls), last.obj.vals) = {} )
        => last.outcome = UnsupportedSubtype

\* ------------------------------------------------------------------------
\* C4  Multi-field resolution
\* ------------------------------------------------------------------------

\* C4: the resolution yields the variant of the first discriminator field,
\* in registration order, whose value in the mapping is registered.
C4_MultiField ==
    ( /\ ResolvedMapping
      /\ Matching(DictOf(last.cls), last.obj.vals) # {} )
        => LET dict == DictOf(last.cls)
               m    == Matching(dict, last.obj.vals)
               f    == dict.names[CHOOSE i \in m : \A j \in m : i <= j]
           IN /\ last.via = "typemap"
              /\ last.field = f
              /\ last.sub = dict.entries[f][last.obj.vals[f]]

\* ------------------------------------------------------------------------
\* C5  Idempotent re-registration
\* ------------------------------------------------------------------------

\* C5: registering a class again under the field and value it is already
\* registered under succeeds and leaves every typemap as it was.
C5_Idempotent ==
    [][ ( /\ IsRegisterStep
          /\ last'.value # NoneVal
          /\ typemap[TargetOf(typemap, last'.cls)]
                 .entries[last'.name][last'.value] = last'.cls )
            => /\ last'.outcome = "ok"
               /\ typemap' = typemap
      ]_vars

\* ------------------------------------------------------------------------
\* C6  Family isolation
\* ------------------------------------------------------------------------

\* The base of the hierarchy a class belongs to.
Root(c) == MRO(c)[Len(MRO(c))]

\* The registry as it would be had only the classes of one hierarchy
\* ever registered.
Erase(tm, root) ==
    [c \in Classes |-> IF Root(c) = root THEN tm[c] ELSE NoTypemap]

\* C6: a registration call behaves as if the classes of the other
\* hierarchies had never registered anything (same outcome, same effect on
\* its own hierarchy) and changes no typemap of another hierarchy; a
\* resolution behaves likewise and yields a class of its own hierarchy.
C6_FamilyIsolation ==
    [][ /\ IsRegisterStep
          => LET root == Root(last'.cls)
                 r    == RegisterAdaptiveType(Erase(typemap, root),
                             last'.cls, last'.name, last'.value)
             IN /\ last'.outcome = r.outcome
                /\ \A c \in Classes :
                       typemap'[c] = IF Root(c) = root THEN r.tm[c]
                                     ELSE typemap[c]
        /\ (last'.op = "resolve" /\ last'.obj.kind = "dict")
          => LET r == ResolveAdaptiveType(Erase(typemap', Root(last'.cls)),
                          last'.cls, last'.obj)
             IN /\ last'.outcome = r.outcome
                /\ last'.result = r.result
                /\ last'.sub = r.sub
                /\ last'.via = "typemap" => Root(last'.sub) = Root(last'.cls)
      ]_vars

\* A mapping was resolved to the variant of its own family while another
\* hierarchy has a different class registered under the same field and value.
C6_Witness ==
    /\ ResolvedMapping
    /\ last.via = "typemap"
    /\ last.outcome = "ok"
    /\ \E c \in Classes :
          /\ Root(c) # Root(last.cls)
          /\ typemap[c].has
          /\ typemap[c].entries[last.field][last.obj.vals[last.field]]
                \notin {NoClass, last.sub}

\* ------------------------------------------------------------------------
\* C7  Open resolution
\* ------------------------------------------------------------------------

C8_EmptyRegistry ==
    ( /\ last.op = "resolve"
      /\ last.obj.kind = "dict"
      /\ \/ ~HasTypemap(typemap, last.cls)
         \/ ~HasVariants(DictOf(last.cls)) )
        => last.outcome = MissingTypemap

\* ------------------------------------------------------------------------
\* C9  deserialize selects the variant through the registry
\* ------------------------------------------------------------------------

\* C9: deserialize of a mapping that carries a discriminator value returns
\* what _resolve_adaptive_type returns, an instance of the class registered
\* under the value, and fails when no class is registered under it.
C9_DeserializeUsesRegistry ==
    ( /\ last.op = "deserialize"
      /\ HasTypemap(typemap, last.cls)
      /\ Carried(DictOf(last.cls), last.obj.vals) # {} )
        => LET dict == DictOf(last.cls)
               f    == Discriminator(dict, last.obj.vals)
               reg  == dict.entries[f][last.obj.vals[f]]
               r    == ResolveAdaptiveType(typemap, last.cls, last.obj)
           IN IF reg # NoClass
              THEN /\ last.result = r.result
                   /\ last.outcome = "ok" => last.result.cls = reg
              ELSE last.outcome # "ok"

\* ------------------------------------------------------------------------
\* C10  Pass-through
\* ------------------------------------------------------------------------

\* The last call resolved an object that is an instance of the class.
ResolvedInstance ==
    /\ last.op \in {"resolve", "resolve_again"}
    /\ last.obj.kind = "inst"
    /\ IsSubclass(last.obj.cls, last.cls)

\* C10: resolving an object that already is an instance of the requested
\* class returns that very object, whatever the registry holds, also when
\* the object is the result of an earlier resolution.
C10_PassThrough ==
    ResolvedInstance
        => /\ last.outcome = "ok"
           /\ last.result = last.obj

\* The result of a resolution was resolved again and came back, on a class
\* without typemap.
C10_Witness ==
    /\ ResolvedInstance
    /\ last.op = "resolve_again"
    /\ ~HasTypemap(typemap, last.cls)
    /\ last.result = last.obj
    /\ last.result.id = 1

\* ------------------------------------------------------------------------
\* C11  Partial update is additive-only
\* ------------------------------------------------------------------------

\* The last call was an update with a patch of well-typed values.
UpdatedWith ==
    /\ call.op = "update"
    /\ \A f \in DOMAIN call.arg : call.arg[f] \in Strings

\* C11: an update with a patch that names some of the fields of the
\* instance succeeds and returns the instance itself; every field the
\* patch names holds the value of the patch, every other field the value
\* it had before the call.
C11_AdditiveOnly ==
    UpdatedWith =>
        /\ call.outcome = "ok"
        /\ call.result = "self"
        /\ \A f \in ShapeNames :
               inst[f] = IF f \in DOMAIN call.arg THEN call.arg[f]
                         ELSE call.before[f]

\* ------------------------------------------------------------------------
\* C12  update writes the non-default fields of the validated patch
\* ------------------------------------------------------------------------

\* The patch of the last call holds, for field f, a value other than the
\* default of f.
NonDefault(f) == f \in DOMAIN call.arg /\ call.arg[f] # schema[f].default

\* C12: an update writes the fields the patch holds with a value other
\* than the default of the field, and no other: after an update that
\* returned, such a field holds the value of the patch; after any update,
\* every other field, one whose patch value equals its default included,
\* holds the value it had before the call.
C12_WritesNonDefault ==
    call.op = "update" =>
        \A f \in ShapeNames :
            /\ ~NonDefault(f) => inst[f] = call.before[f]
            /\ (NonDefault(f) /\ call.outcome = "ok") => inst[f] = call.arg[f]

\* An update returned that wrote one field and whose patch held, for
\* another field, the default of that field while the instance held
\* something else.
C12_Witness ==
    /\ call.op = "update"
    /\ call.outcome = "ok"
    /\ \E f \in ShapeNames : NonDefault(f) /\ call.before[f] # call.arg[f]
    /\ \E f \in DOMAIN call.arg :
           /\ call.arg[f] = schema[f].default
           /\ call.before[f] # schema[f].default
           /\ inst[f] = call.before[f]

\* ------------------------------------------------------------------------
\* C13  The discriminator is read-only
\* ------------------------------------------------------------------------

\* The fields a class keyword declared: the discriminators of the variant.
Discriminators == {f \in ShapeNames : schema[f].frozen}

\* Once the instance exists no call changes a discriminator of it.
DiscriminatorKept ==
    [][inst # NoInstance =>
          \A f \in Discriminators : inst'[f] = inst[f]]_vars

\* C13: whenever an instance of a variant declared with a discriminator
\* keyword exists, its discriminator field holds the value the keyword
\* declared.
C13_DiscriminatorFixed ==
    inst # NoInstance =>
        \A f \in Discriminators : inst[f] = schema[f].default

\* ------------------------------------------------------------------------
\* C14  Round trip
\* ------------------------------------------------------------------------

\* C14: deserializing on a family what an instance of one of its classes
\* serializes to in PYTHON mode returns an instance of the same class
\* with the same fields.
C14_RoundTrip ==
    ( /\ last.op = "roundtrip"
      /\ IsSubclass(last.obj.cls, last.cls) )
        => /\ last.outcome = "ok"
           /\ last.result.cls = last.obj.cls
           /\ last.result.vals = last.obj.vals

\* ------------------------------------------------------------------------
\* C15  Serialization omits None and keeps falsy values
\* ------------------------------------------------------------------------

\* The last call serialized the instance in the native mode.
SerializedNative == call.op = "serialize" /\ call.value = PYTHON

\* C15: the output of PYTHON mode is a dict in which the key of a field is
\* absent exactly when the field holds None; a field that holds anything
\* else, the empty string included, is in the dict with the value it holds.
C15_OmitsNoneKeepsFalsy ==
    SerializedNative =>
        /\ call.outcome = "ok"
        /\ call.output.kind = "dict"
        /\ DOMAIN call.output.data \subseteq ShapeNames
        /\ \A f \in ShapeNames :
               /\ f \notin DOMAIN call.output.data <=> call.before[f] = NoneVal
               /\ f \in DOMAIN call.output.data =>
                      call.output.data[f] = call.before[f]

\* A native serialization of an instance that holds None in one field and
\* the empty string in another.
C15_Witness ==
    /\ SerializedNative
    /\ \E f \in ShapeNames :
           call.before[f] = NoneVal /\ f \notin DOMAIN call.output.data
    /\ \E f \in DOMAIN call.output.data :
           call.before[f] = "" /\ call.output.data[f] = ""

\* ------------------------------------------------------------------------
\* C16  The modes serialize accepts
\* ------------------------------------------------------------------------

\* C16: serialize returns a dict for PYTHON, for API and where the mode is
\* left out, and a text for JSON; for every other mode it raises the
\* unsupported-mode error and there is no output.
C16_Modes ==
    call.op = "serialize" =>
        /\ call.arg = <<>> => call.value = PYTHON
        /\ call.value \in {PYTHON, API} =>
               call.outcome = "ok" /\ call.output.kind = "dict"
        /\ call.value = JSON =>
               call.outcome = "ok" /\ call.output.kind = "str"
        /\ call.value \notin {PYTHON, API, JSON} =>
               call.outcome = UnsupportedMode /\ call.output = NoOutput

\* serialize was called with a mode that is no member of the enumeration.
C16_Witness ==
    /\ call.op = "serialize"
    /\ call.value \notin {PYTHON, API, JSON}
    /\ call.outcome = UnsupportedMode

\* ------------------------------------------------------------------------
\* C17  Variadic composition
\* ------------------------------------------------------------------------

\* The last call was a subscript of a class that has a __compose__.
Composed == call.op = "getitem" /\ HasCompose(call.name)

\* C17: a subscript with a list or tuple makes one __compose__ call whose
\* arguments are the elements of the list or tuple; a subscript with
\* anything else makes one __compose__ call with that value as the one
\* argument.
C17_OneDispatch ==
    Composed =>
        /\ call.outcome = "ok"
        /\ Len(call.composed) = 1
        /\ call.composed[1] =
               IF call.arg.kind \in {"list", "tuple"} THEN call.arg.items
               ELSE <<call.arg>>

\* ------------------------------------------------------------------------
\* C18  Composition unsupported
\* ------------------------------------------------------------------------

\* C18: a subscript of a class without a __compose__ raises the
\* composition-unsupported error, whatever the parameters, and nothing is
\* composed.
C18_Unsupported ==
    (call.op = "getitem" /\ ~HasCompose(call.name)) =>
        /\ call.outcome = CompositionUnsupported
        /\ call.composed = <<>>

\* A class without a __compose__ was subscripted with a list of two values.
C18_Witness ==
    /\ call.op = "getitem"
    /\ ~HasCompose(call.name)
    /\ call.arg.kind = "list"
    /\ Len(call.arg.items) = 2
    /\ call.outcome = CompositionUnsupported

\* ------------------------------------------------------------------------
\* C19  The outcomes of Session.ping
\* ------------------------------------------------------------------------

\* C19: ping either returns True, which it does when users.me() returned
\* the user, or raises SessionError, which it does whenever users.me()
\* failed; it raises no other exception.
C19_PingOutcomes ==
    call.op = "ping" =>
        IF Me(remote).raised = "none" /\ Me(remote).user # NoneVal
        THEN call.outcome = "ok" /\ call.result = "True"
        ELSE call.outcome = SessionError

\* ------------------------------------------------------------------------
\* C20  update is all-or-nothing
\* ------------------------------------------------------------------------

\* C20: after an update that raised, every field of the instance holds the
\* value it had before the call.
C20_AllOrNothing ==
    (call.op = "update" /\ call.outcome # "ok") => inst = call.before

\* ------------------------------------------------------------------------
\* C21  MultiSelect keeps the option names unique
\* ------------------------------------------------------------------------

\* No two options of the list have the same name.
DistinctNames(opts) ==
    \A i, j \in 1..Len(opts) : opts[i].name = opts[j].name => i = j

\* The options of a list that do not have the name, in the order of the
\* list.
RECURSIVE Without(_, _)
Without(opts, name) ==
    IF opts = <<>> THEN <<>>
    ELSE IF Head(opts).name = name THEN Without(Tail(opts), name)
    ELSE <<Head(opts)>> \o Without(Tail(opts), name)

\* C21: `+=` and `-=` keep pairwise distinct names pairwise distinct.
\* `+= name` raises ValueError and leaves the options as they were when
\* an option has the name, and otherwise appends one option of that name
\* at the end; `-= name` removes every option of that name and leaves the
\* others in order.
C21_UniqueNames ==
    /\ call.op \in {"iadd", "isub"} =>
           (DistinctNames(call.before) => DistinctNames(selected))
    /\ call.op = "iadd" =>
           IF \E i \in 1..Len(call.before) : call.before[i].name = call.name
           THEN call.outcome = AlreadySelected /\ selected = call.before
           ELSE /\ call.outcome = "ok"
                /\ Len(selected) = Len(call.before) + 1
                /\ SubSeq(selected, 1, Len(call.before)) = call.before
                /\ selected[Len(selected)].name = call.name
    /\ call.op = "isub" =>
           /\ call.outcome = "ok"
           /\ selected = Without(call.before, call.name)

\* `+=` appended an option to a list of two options of distinct names.
C21_Witness ==
    /\ call.op = "iadd"
    /\ call.outcome = "ok"
    /\ Len(call.before) = 2
    /\ DistinctNames(call.before)
    /\ Len(selected) = 3

====
